---------------------------- MODULE Spec2Model ----------------------------
(***************************************************************************)
(* A model of docker-registry-cleanup (src/src/main.rs): the retention     *)
(* ranker classify_tags, the tag classifier get_matching_tags, and the     *)
(* orchestrator main with its per-repository tasks.                        *)
(*                                                                         *)
(* A String is a sequence of one-character strings, so that byte-wise      *)
(* comparison, prefix trimming, semantic-version parsing and regex         *)
(* matching are computed rather than assumed.                              *)
(***************************************************************************)
EXTENDS Integers, Sequences, FiniteSets, TLC

(***************************************************************************)
(* Bounds of the model.                                                    *)
(***************************************************************************)
\* longest tag list handed to classify_tags
MaxTags == 3
\* largest --max-per-tag handed to classify_tags
MaxKeep == 3
\* longest tag list handed to get_matching_tags
MaxListTags == 3
\* longest --tags rule list handed to get_matching_tags
MaxRules == 2
\* largest --max-per-tag of a run of main
MaxPerTag == 2

(***************************************************************************)
(* Strings.                                                                *)
(***************************************************************************)
\* The bytes of the characters the model uses (str::cmp compares bytes).
Ascii ==
    [c \in {"(", "*", "+", "-", ".", "0", "1", "2", "3", "4", "5", "6", "7",
            "8", "9", "^", "$", "a", "b", "c", "d", "e", "l", "p", "r", "s",
            "t", "v"} |->
       CASE c = "$" -> 36 [] c = "(" -> 40 [] c = "*" -> 42 [] c = "+" -> 43
         [] c = "-" -> 45 [] c = "." -> 46 [] c = "0" -> 48 [] c = "1" -> 49
         [] c = "2" -> 50 [] c = "3" -> 51 [] c = "4" -> 52 [] c = "5" -> 53
         [] c = "6" -> 54 [] c = "7" -> 55 [] c = "8" -> 56 [] c = "9" -> 57
         [] c = "^" -> 94 [] c = "a" -> 97 [] c = "b" -> 98 [] c = "c" -> 99
         [] c = "d" -> 100 [] c = "e" -> 101 [] c = "l" -> 108
         [] c = "p" -> 112 [] c = "r" -> 114 [] c = "s" -> 115
         [] c = "t" -> 116 [] c = "v" -> 118]

Digits == {"0", "1", "2", "3", "4", "5", "6", "7", "8", "9"}

Letters == {"a", "b", "c", "d", "e", "l", "p", "r", "s", "t", "v"}

Min(a, b) == IF a <= b THEN a ELSE b

Tail2(s, k) == SubSeq(s, k, Len(s))

\* Ord::cmp on two strings: -1 (Less), 0 (Equal), 1 (Greater); byte-wise,
\* a proper prefix is Less.
RECURSIVE StrCmp(_, _)
StrCmp(a, b) ==
    IF a = <<>> /\ b = <<>> THEN 0
    ELSE IF a = <<>> THEN -1
    ELSE IF b = <<>> THEN 1
    ELSE IF Ascii[Head(a)] < Ascii[Head(b)] THEN -1
    ELSE IF Ascii[Head(a)] > Ascii[Head(b)] THEN 1
    ELSE StrCmp(Tail(a), Tail(b))

\* the first position of character c in s, 0 when absent
RECURSIVE IndexOf(_, _)
IndexOf(s, c) ==
    IF s = <<>> THEN 0
    ELSE IF Head(s) = c THEN 1
    ELSE LET k == IndexOf(Tail(s), c) IN IF k = 0 THEN 0 ELSE k + 1

\* str::split(sep): the segments between the separators (one segment, the
\* whole string, when there is none)
RECURSIVE Split(_, _)
Split(s, sep) ==
    LET k == IndexOf(s, sep) IN
    IF k = 0 THEN <<s>>
    ELSE <<SubSeq(s, 1, k - 1)>> \o Split(Tail2(s, k + 1), sep)

\* tag.trim_start_matches('v'): removes EVERY leading 'v'
RECURSIVE trim_start_matches_v(_)
trim_start_matches_v(s) ==
    IF s # <<>> /\ Head(s) = "v" THEN trim_start_matches_v(Tail(s)) ELSE s

(***************************************************************************)
(* semver::Version (the crate's parse and Ord, as used by classify_tags).  *)
(***************************************************************************)
AllDigits(s) == s # <<>> /\ \A i \in 1..Len(s) : s[i] \in Digits

\* a numeric identifier: digits, no leading zero unless it is "0"
NumericId(s) == AllDigits(s) /\ (Len(s) = 1 \/ s[1] # "0")

IdentChars(s) ==
    s # <<>> /\ \A i \in 1..Len(s) : s[i] \in Digits \cup Letters \cup {"-"}

\* a pre-release identifier: [0-9A-Za-z-]+, and no leading zero when numeric
PreId(s) == IdentChars(s) /\ (AllDigits(s) => NumericId(s))

RECURSIVE NumVal(_)
NumVal(s) ==
    IF s = <<>> THEN 0
    ELSE 10 * NumVal(SubSeq(s, 1, Len(s) - 1)) + (Ascii[s[Len(s)]] - 48)

NoVersion == [ok |-> FALSE]

\* Version::parse(text).ok(): major.minor.patch[-pre][+build]
VersionParse(text) ==
    LET plus == IndexOf(text, "+")
        front == IF plus = 0 THEN text ELSE SubSeq(text, 1, plus - 1)
        build == IF plus = 0 THEN <<>> ELSE Split(Tail2(text, plus + 1), ".")
        dash == IndexOf(front, "-")
        core == IF dash = 0 THEN front ELSE SubSeq(front, 1, dash - 1)
        pre == IF dash = 0 THEN <<>> ELSE Split(Tail2(front, dash + 1), ".")
        nums == Split(core, ".")
    IN  IF /\ Len(nums) = 3
           /\ \A i \in 1..3 : NumericId(nums[i])
           /\ \A i \in 1..Len(pre) : PreId(pre[i])
           /\ \A i \in 1..Len(build) : IdentChars(build[i])
        THEN [ok |-> TRUE, major |-> NumVal(nums[1]), minor |-> NumVal(nums[2]),
              patch |-> NumVal(nums[3]), pre |-> pre, build |-> build]
        ELSE NoVersion

IntCmp(a, b) == IF a < b THEN -1 ELSE IF a > b THEN 1 ELSE 0

\* one dot-separated identifier against another: numeric ones by value and
\* below alphanumeric ones, alphanumeric ones byte-wise
IdCmp(a, b) ==
    IF AllDigits(a) /\ AllDigits(b) THEN
        (IF NumVal(a) # NumVal(b) THEN IntCmp(NumVal(a), NumVal(b))
         ELSE IntCmp(Len(a), Len(b)))
    ELSE IF AllDigits(a) THEN -1
    ELSE IF AllDigits(b) THEN 1
    ELSE StrCmp(a, b)

RECURSIVE IdsCmp(_, _)
IdsCmp(p, q) ==
    IF p = <<>> /\ q = <<>> THEN 0
    ELSE IF p = <<>> THEN -1
    ELSE IF q = <<>> THEN 1
    ELSE IF IdCmp(Head(p), Head(q)) # 0 THEN IdCmp(Head(p), Head(q))
    ELSE IdsCmp(Tail(p), Tail(q))

\* Prerelease::cmp: no pre-release ranks above any pre-release
PreCmp(p, q) ==
    IF p = <<>> /\ q = <<>> THEN 0
    ELSE IF p = <<>> THEN 1
    ELSE IF q = <<>> THEN -1
    ELSE IdsCmp(p, q)

\* Version::cmp: major, minor, patch, pre, build
VersionCmp(a, b) ==
    IF a.major # b.major THEN IntCmp(a.major, b.major)
    ELSE IF a.minor # b.minor THEN IntCmp(a.minor, b.minor)
    ELSE IF a.patch # b.patch THEN IntCmp(a.patch, b.patch)
    ELSE IF PreCmp(a.pre, b.pre) # 0 THEN PreCmp(a.pre, b.pre)
    ELSE IdsCmp(a.build, b.build)


(***************************************************************************)
(* classify_tags: the retention ranker.                                    *)
(***************************************************************************)
\* the (Version, String) pairs of the semver branch: filter_map keeps the
\* tags whose text, all leading 'v' trimmed, parses
RECURSIVE ParsedVersions(_)
ParsedVersions(tags) ==
    IF tags = <<>> THEN <<>>
    ELSE LET ver == VersionParse(trim_start_matches_v(Head(tags)))
         IN  (IF ver.ok THEN <<[ver |-> ver, tag |-> Head(tags)]>> ELSE <<>>)
             \o ParsedVersions(Tail(tags))

\* the elements of the lexicographic branch: the tags themselves
Unparsed(tags) == [i \in 1..Len(tags) |-> [ver |-> NoVersion, tag |-> tags[i]]]

\* the comparator's argument order makes the sort descending: b.cmp(a)
ElemCmp(semver, a, b) ==
    IF semver THEN VersionCmp(a.ver, b.ver) ELSE StrCmp(a.tag, b.tag)

\* sort_unstable_by(|a, b| b.cmp(a)): every arrangement of the elements at
\* positions idx that is in descending order; equal elements may come out in
\* any order (the sort is unstable)
RECURSIVE DescendingOrders(_, _, _)
DescendingOrders(elems, idx, semver) ==
    IF idx = {} THEN {<<>>}
    ELSE UNION {
           {<<elems[i].tag>> \o rest :
                rest \in DescendingOrders(elems, idx \ {i}, semver)} :
           i \in {i \in idx :
                    \A j \in idx : ElemCmp(semver, elems[i], elems[j]) >= 0}}

\* a plausible slip: the comparator written a.cmp(b), an ascending sort
RECURSIVE AscendingOrders(_, _, _)
AscendingOrders(elems, idx, semver) ==
    IF idx = {} THEN {<<>>}
    ELSE UNION {
           {<<elems[i].tag>> \o rest :
                rest \in AscendingOrders(elems, idx \ {i}, semver)} :
           i \in {i \in idx :
                    \A j \in idx : ElemCmp(semver, elems[i], elems[j]) <= 0}}

SortedAscending(tags, semver) ==
    LET elems == IF semver THEN ParsedVersions(tags) ELSE Unparsed(tags)
    IN  AscendingOrders(elems, 1..Len(elems), semver)

\* the values `sorted` may take (lines 152-167)
Sorted(tags, semver) ==
    LET elems == IF semver THEN ParsedVersions(tags) ELSE Unparsed(tags)
    IN  DescendingOrders(elems, 1..Len(elems), semver)

\* the task unwinds: a slice index past the end of `sorted`
Panicked == [panic |-> TRUE]

Returned(keep, remove) == [panic |-> FALSE, keep |-> keep, remove |-> remove]

\* classify_tags(tags, num_tags, semver): the outcomes the call may have.
\* n is taken from the UNFILTERED length; sorted[..n] and sorted[n..] panic
\* when n exceeds sorted.len().
classify_tags(tags, num_tags, semver) ==
    LET n == Min(num_tags, Len(tags))
    IN  {IF n > Len(sorted) THEN Panicked
         ELSE Returned(SubSeq(sorted, 1, n), SubSeq(sorted, n + 1, Len(sorted))) :
         sorted \in Sorted(tags, semver)}

(***************************************************************************)
(* regex::Regex, for the patterns the model uses: an optional ^ anchor,    *)
(* literals, '.', a postfix '*', a final '$'; the search is unanchored.    *)
(***************************************************************************)
\* Regex::new(t) is Ok: an unclosed group or a leading '*' is a syntax error
RegexNew(t) ==
    /\ \A i \in 1..Len(t) : t[i] # "("
    /\ (t # <<>> => t[1] # "*")
    /\ (Len(t) >= 2 /\ t[1] = "^" => t[2] # "*")

RECURSIVE MatchHere(_, _)
MatchHere(re, text) ==
    IF re = <<>> THEN TRUE
    ELSE IF Len(re) >= 2 /\ re[2] = "*" THEN
        \E k \in 0..Len(text) :
            /\ \A i \in 1..k : re[1] = "." \/ text[i] = re[1]
            /\ MatchHere(Tail2(re, 3), Tail2(text, k + 1))
    ELSE IF re = <<"$">> THEN text = <<>>
    ELSE IF text # <<>> /\ (re[1] = "." \/ re[1] = text[1])
        THEN MatchHere(Tail(re), Tail(text))
    ELSE FALSE

\* Regex::is_match(text)
is_match(re, text) ==
    IF re # <<>> /\ re[1] = "^" THEN MatchHere(Tail(re), text)
    ELSE \E k \in 0..Len(text) : MatchHere(re, Tail2(text, k + 1))

(***************************************************************************)
(* get_matching_tags: the tag classifier.  A HashMap is a function whose   *)
(* domain is its key set.                                                  *)
(***************************************************************************)
EmptyMap == [k \in {} |-> <<>>]

\* String::from(".*")
Wildcard == <<".", "*">>

\* matching_tags.entry(key).or_default().push(tag)
EntryPush(m, key, tag) ==
    IF key \in DOMAIN m THEN [m EXCEPT ![key] = Append(@, tag)]
    ELSE [k \in DOMAIN m \cup {key} |-> IF k = key THEN <<tag>> ELSE m[k]]

\* a plausible slip: `break` after the first matching rule
RECURSIVE ForEachRuleFirstMatch(_, _, _, _)
ForEachRuleFirstMatch(m, tag, regex_tags, j) ==
    IF j > Len(regex_tags) THEN m
    ELSE IF is_match(regex_tags[j], tag) THEN EntryPush(m, regex_tags[j], tag)
    ELSE ForEachRuleFirstMatch(m, tag, regex_tags, j + 1)

\* the inner loop: for regex_tag in regex_tags.iter(), from rule j on
RECURSIVE ForEachRule(_, _, _, _)
ForEachRule(m, tag, regex_tags, j) ==
    IF j > Len(regex_tags) THEN m
    ELSE ForEachRule(IF is_match(regex_tags[j], tag)
                     THEN EntryPush(m, regex_tags[j], tag) ELSE m,
                     tag, regex_tags, j + 1)

\* the outer loop: for tag in tag_list.tags.iter(), from tag i on
RECURSIVE ForEachTag(_, _, _, _)
ForEachTag(m, tags, regex_tags, i) ==
    IF i > Len(tags) THEN m
    ELSE ForEachTag(ForEachRule(m, tags[i], regex_tags, 1), tags, regex_tags, i + 1)

\* a plausible slip: the empty rule list falling through to the loops
get_matching_tags_no_default(tags, regex_tags) ==
    ForEachTag(EmptyMap, tags, regex_tags, 1)

get_matching_tags(tags, regex_tags) ==
    IF regex_tags = <<>> THEN [k \in {Wildcard} |-> tags]
    ELSE ForEachTag(EmptyMap, tags, regex_tags, 1)

(***************************************************************************)
(* Tags, patterns and repositories of the model.                           *)
(***************************************************************************)
Tag_v1_0_0 == <<"v", "1", ".", "0", ".", "0">>
Tag_1_0_0 == <<"1", ".", "0", ".", "0">>
Tag_vv1_0_0 == <<"v", "v", "1", ".", "0", ".", "0">>
Tag_v1_10_0 == <<"v", "1", ".", "1", "0", ".", "0">>
Tag_v1_2_0 == <<"v", "1", ".", "2", ".", "0">>
Tag_v1_1_0 == <<"v", "1", ".", "1", ".", "0">>
Tag_v2_0_0 == <<"v", "2", ".", "0", ".", "0">>
Tag_1_0_0_rc == <<"1", ".", "0", ".", "0", "-", "r", "c">>
Tag_v1_0 == <<"v", "1", ".", "0">>
Tag_latest == <<"l", "a", "t", "e", "s", "t">>
Tag_dev_1 == <<"d", "e", "v", "-", "1">>
Tag_a == <<"a">>
Tag_b == <<"b">>
Tag_c == <<"c">>

Pat_v == <<"^", "v">>
Pat_1 == <<"1">>
Pat_b_end == <<"b", "$">>
Pat_app == <<"^", "a", "p", "p">>
Pat_bad == <<"(">>

\* sequences over S of length at most n
SeqsUpTo(S, n) == UNION {[1..k -> S] : k \in 0..n}

\* sequences over S of length at most n with no element repeated
DistinctSeqsUpTo(S, n) ==
    {q \in SeqsUpTo(S, n) : \A i, j \in 1..Len(q) : i # j => q[i] # q[j]}

Range(q) == {q[i] : i \in 1..Len(q)}

\* tags a bucket may hold when classify_tags is called
RankTags ==
    {Tag_v1_0_0, Tag_1_0_0, Tag_vv1_0_0, Tag_v1_10_0, Tag_v1_2_0,
     Tag_1_0_0_rc, Tag_v1_0, Tag_latest}

\* the two worked examples of the ranker's contract
RankExamples ==
    {[tags |-> <<Tag_c, Tag_a, Tag_b>>, num_tags |-> 2, semver |-> FALSE],
     [tags |-> <<Tag_v1_2_0, Tag_v1_1_0, Tag_v2_0_0, Tag_latest>>,
      num_tags |-> 1, semver |-> TRUE]}

\* the calls of classify_tags the model makes; num_tags is a NonZeroUsize
RankInputs ==
    [tags : SeqsUpTo(RankTags, MaxTags), num_tags : 1..MaxKeep,
     semver : BOOLEAN] \cup RankExamples

\* tags of a repository's tag list and --tags patterns, for get_matching_tags
ListTags == {Tag_a, Tag_b, Tag_v1_0_0, Tag_dev_1}

ListRules == {Pat_v, Pat_1, Wildcard, Pat_b_end}

ClassifyInputs ==
    [tags : DistinctSeqsUpTo(ListTags, MaxListTags),
     rules : SeqsUpTo(ListRules, MaxRules)]

Repo_app == <<"a", "p", "p">>
Repo_db == <<"d", "b">>

\* the repositories the registry may list
Repos == {Repo_app, Repo_db}

\* Args (lines 25-54) the runs are started with; max_per_tag is a NonZeroUsize
ArgTagRules == {<<>>, <<Pat_v>>, <<Pat_v, Pat_1>>, <<Pat_bad>>}

ArgImageRules == {<<>>, <<Pat_app>>, <<Pat_bad>>}

ArgMaxPerTag == 1..MaxPerTag

PipelineArgs ==
    [delete : BOOLEAN, semver : BOOLEAN, max_per_tag : ArgMaxPerTag,
     tags : ArgTagRules, images : ArgImageRules]

\* what the registry may answer: Catalog.repositories, ImageTagList.tags
CatalogResponses == {<<>>, <<Repo_app, Repo_db>>}

TagListResponses ==
    {<<Tag_latest>>, <<Tag_v1_0_0, Tag_v1_2_0>>,
     <<Tag_v1_0_0, Tag_latest, Tag_v1_2_0>>}

VARIABLES
    args,                \* the parsed command line
    mainpc,              \* where main is
    catalog,             \* catalog_data.repositories
    next_repo,           \* position of the `for repository` loop
    task,                \* per repository: the spawned task's state
    calls,               \* per repository: the registry calls issued, in order
    catalog_calls,       \* number of get_catalogs requests issued
    catalog_res,         \* the answer to get_catalogs: "none" before it is
                         \* issued, then "pending", then "ok" or "err"
    num_tags_to_delete,  \* main's running total
    errors,              \* main's error list
    stdout,              \* what main has printed, in order
    rank,   \* one call of classify_tags: its arguments and its outcome
    cls     \* one call of get_matching_tags: its arguments and its result

pipeline ==
    <<args, mainpc, catalog, next_repo, task, calls, catalog_calls,
      catalog_res, num_tags_to_delete, errors, stdout>>

vars == <<args, mainpc, catalog, next_repo, task, calls, catalog_calls,
          catalog_res, num_tags_to_delete, errors, stdout, rank, cls>>

RankIdle ==
    [st |-> "off", tags |-> <<>>, num_tags |-> 1, semver |-> FALSE,
     keep |-> <<>>, remove |-> <<>>]

ClsIdle == [st |-> "off", tags |-> <<>>, rules |-> <<>>, out |-> EmptyMap]

\* a repository for which nothing was spawned
NoTask ==
    [pc |-> "none", joined |-> FALSE, buckets |-> EmptyMap, bucket |-> <<>>,
     remove |-> <<>>, log |-> <<>>, count |-> 0]

\* the pipeline before main starts (mainpc = "start") or not run at all
PipelineAt(pc, a) ==
    /\ args = a
    /\ mainpc = pc
    /\ catalog = <<>>
    /\ next_repo = 1
    /\ task = [r \in Repos |-> NoTask]
    /\ calls = [r \in Repos |-> <<>>]
    /\ catalog_calls = 0
    /\ catalog_res = "none"
    /\ num_tags_to_delete = 0
    /\ errors = <<>>
    /\ stdout = <<>>

PipelineOff ==
    PipelineAt("off", [delete |-> FALSE, semver |-> FALSE, max_per_tag |-> 1,
                       tags |-> <<>>, images |-> <<>>])

(***************************************************************************)
(* SpecRank: classify_tags applied to every input of RankInputs.           *)
(***************************************************************************)
InitRank ==
    /\ rank \in {[st |-> "input", tags |-> in.tags, num_tags |-> in.num_tags,
                  semver |-> in.semver, keep |-> <<>>, remove |-> <<>>] :
                 in \in RankInputs}
    /\ cls = ClsIdle
    /\ PipelineOff

CallClassifyTags ==
    /\ rank.st = "input"
    /\ \E res \in classify_tags(rank.tags, rank.num_tags, rank.semver) :
          rank' = IF res.panic THEN [rank EXCEPT !.st = "panicked"]
                  ELSE [rank EXCEPT !.st = "returned", !.keep = res.keep,
                                    !.remove = res.remove]
    /\ UNCHANGED <<cls, pipeline>>

NextRank == CallClassifyTags

SpecRank == InitRank /\ [][NextRank]_vars

(***************************************************************************)
(* SpecClassify: get_matching_tags applied to every input of               *)
(* ClassifyInputs.                                                         *)
(***************************************************************************)
InitClassify ==
    /\ cls \in {[st |-> "input", tags |-> in.tags, rules |-> in.rules,
                 out |-> EmptyMap] : in \in ClassifyInputs}
    /\ rank = RankIdle
    /\ PipelineOff

CallGetMatchingTags ==
    /\ cls.st = "input"
    /\ cls' = [cls EXCEPT !.st = "returned",
                          !.out = get_matching_tags(cls.tags, cls.rules)]
    /\ UNCHANGED <<rank, pipeline>>

NextClassify == CallGetMatchingTags

SpecClassify == InitClassify /\ [][NextClassify]_vars

(***************************************************************************)
(* Spec: one run of main.  A step of main or of a task runs from one       *)
(* .await to the next; a registry call is in flight (res = "pending")      *)
(* from the step that issues it to the step that takes its answer.         *)
(***************************************************************************)
\* the lines a task pushes on its log (the format! strings)
LogLine(kind, r, tag, n, pattern) ==
    [kind |-> kind, repo |-> r, tag |-> tag, n |-> n, pattern |-> pattern]

NoEligible(r) == LogLine("none", r, <<>>, 0, <<>>)
Found(r, n, pattern) == LogLine("found", r, <<>>, n, pattern)
ToBeDeleted(r, tag) == LogLine("to_be_deleted", r, tag, 0, <<>>)
Deleted(r, tag) == LogLine("deleted", r, tag, 0, <<>>)
Warning(r, tag) == LogLine("warning", r, tag, 0, <<>>)

\* a registry call as issued: get_tag_list, get_tag_digest or delete_tag
Call(op, bucket, tag) ==
    [op |-> op, bucket |-> bucket, tag |-> tag, res |-> "pending"]

\* the answer to the call in flight, the last one issued
Answered(cs, res) == [cs EXCEPT ![Len(cs)].res = res]

\* a task's terminal states: returned Ok((log, n)), returned Err(e), panicked
Finished == {"ok", "err", "panicked"}

Spawned(r) == task[r].pc # "none"

\* a plausible slip: the delete issued whatever the flag says
DeleteAlways(a) == TRUE

\* a plausible slip: the delete never issued
DeleteNever(a) == FALSE

\* `if args.delete` (line 271)
DeleteRequested(a) == a.delete

\* a plausible slip: the patterns compiled lazily, none checked up front
CompileUnchecked(patterns) == TRUE

\* Regex::new over a pattern list, collected into a Result (lines 211, 219)
CompileAll(patterns) == \A i \in 1..Len(patterns) : RegexNew(patterns[i])

\* lines 211-217: the tag rules are compiled
CompileTagRules ==
    /\ mainpc = "start"
    /\ mainpc' = IF CompileAll(args.tags) THEN "compile_images" ELSE "failed"
    /\ UNCHANGED <<args, catalog, next_repo, task, calls, catalog_calls,
                   catalog_res, num_tags_to_delete, errors, stdout, rank, cls>>

\* lines 219-229: the image rules are compiled, then get_catalogs is issued
CompileImageRules ==
    /\ mainpc = "compile_images"
    /\ IF CompileAll(args.images)
       THEN /\ mainpc' = "catalog"
            /\ catalog_calls' = catalog_calls + 1
            /\ catalog_res' = "pending"
       ELSE /\ mainpc' = "failed"
            /\ UNCHANGED <<catalog_calls, catalog_res>>
    /\ UNCHANGED <<args, catalog, next_repo, task, calls,
                   num_tags_to_delete, errors, stdout, rank, cls>>

\* line 229: get_catalogs answers with a catalog
CatalogOk ==
    /\ mainpc = "catalog"
    /\ \E c \in CatalogResponses : catalog' = c
    /\ mainpc' = "spawn"
    /\ catalog_res' = "ok"
    /\ UNCHANGED <<args, next_repo, task, calls, catalog_calls,
                   num_tags_to_delete, errors, stdout, rank, cls>>

\* a plausible slip: `unwrap_or_default()` instead of `?`, so that a failed
\* catalog request is taken for an empty catalog
CatalogErrAsEmpty ==
    /\ mainpc = "catalog"
    /\ mainpc' = "spawn"
    /\ catalog' = <<>>
    /\ catalog_res' = "err"
    /\ UNCHANGED <<args, next_repo, task, calls, catalog_calls,
                   num_tags_to_delete, errors, stdout, rank, cls>>

\* line 229: get_catalogs fails and `?` returns from main
CatalogErr ==
    /\ mainpc = "catalog"
    /\ mainpc' = "failed"
    /\ catalog_res' = "err"
    /\ UNCHANGED <<args, catalog, next_repo, task, calls, catalog_calls,
                   num_tags_to_delete, errors, stdout, rank, cls>>

\* a plausible slip: the image filter dropped, every entry gets a worker
AdmittedAlways(repository) == TRUE

\* line 234: the repository passes the image rules
Admitted(repository) ==
    ~(args.images # <<>>
        /\ ~\E i \in 1..Len(args.images) : is_match(args.images[i], repository))

\* lines 233-289: one iteration of the `for repository` loop
SpawnOrSkip ==
    /\ mainpc = "spawn"
    /\ next_repo <= Len(catalog)
    /\ LET repository == catalog[next_repo]
       IN  IF Admitted(repository)
           THEN /\ task' = [task EXCEPT ![repository].pc = "spawned"]
                /\ UNCHANGED stdout
           ELSE /\ stdout' = Append(stdout, [kind |-> "skip", repo |-> repository])
                /\ UNCHANGED task
    /\ next_repo' = next_repo + 1
    /\ UNCHANGED <<args, mainpc, catalog, calls, catalog_calls,
                   catalog_res, num_tags_to_delete, errors, rank, cls>>

\* the loop is over: main reaches join_next().await
SpawnDone ==
    /\ mainpc = "spawn"
    /\ next_repo > Len(catalog)
    /\ mainpc' = "join"
    /\ UNCHANGED <<args, catalog, next_repo, task, calls, catalog_calls,
                   catalog_res, num_tags_to_delete, errors, stdout, rank, cls>>

\* line 246: the task is first polled and issues get_tag_list
TaskStart(r) ==
    /\ task[r].pc = "spawned"
    /\ task' = [task EXCEPT ![r].pc = "tag_list"]
    /\ calls' = [calls EXCEPT ![r] = Append(@, Call("tag_list", <<>>, <<>>))]
    /\ UNCHANGED <<args, mainpc, catalog, next_repo, catalog_calls,
                   catalog_res, num_tags_to_delete, errors, stdout, rank, cls>>

\* line 246: get_tag_list fails and `?` returns Err from the task
TagListErr(r) ==
    /\ task[r].pc = "tag_list"
    /\ task' = [task EXCEPT ![r].pc = "err"]
    /\ calls' = [calls EXCEPT ![r] = Answered(@, "err")]
    /\ UNCHANGED <<args, mainpc, catalog, next_repo, catalog_calls,
                   catalog_res, num_tags_to_delete, errors, stdout, rank, cls>>

\* lines 246-254: the tag list arrives and is classified
TagListOk(r) ==
    /\ task[r].pc = "tag_list"
    /\ \E tags \in TagListResponses :
          LET matching_tags == get_matching_tags(tags, args.tags)
          IN  task' = [task EXCEPT ![r] =
                 IF DOMAIN matching_tags = {}
                 THEN [@ EXCEPT !.pc = "ok", !.log = <<NoEligible(r)>>]
                 ELSE [@ EXCEPT !.pc = "buckets", !.buckets = matching_tags]]
    /\ calls' = [calls EXCEPT ![r] = Answered(@, "ok")]
    /\ UNCHANGED <<args, mainpc, catalog, next_repo, catalog_calls,
                   catalog_res, num_tags_to_delete, errors, stdout, rank, cls>>

\* lines 255-265: the next bucket, in the HashMap's order, is ranked; with a
\* non-empty remove-set the count grows by its length and the first digest
\* is asked for
NextBucket(r) ==
    /\ task[r].pc = "buckets"
    /\ \E k \in DOMAIN task[r].buckets :
       \E res \in classify_tags(task[r].buckets[k], args.max_per_tag, args.semver) :
          LET t == task[r]
              rest == [x \in DOMAIN t.buckets \ {k} |-> t.buckets[x]]
          IN  IF res.panic
              THEN /\ task' = [task EXCEPT ![r].pc = "panicked"]
                   /\ UNCHANGED calls
              ELSE IF res.remove = <<>>
              THEN /\ task' = [task EXCEPT ![r].buckets = rest]
                   /\ UNCHANGED calls
              ELSE /\ task' = [task EXCEPT ![r] =
                         [t EXCEPT !.pc = "digest", !.buckets = rest,
                                   !.bucket = k, !.remove = res.remove,
                                   !.count = t.count + Len(res.remove),
                                   !.log = Append(t.log,
                                               Found(r, Len(res.remove), k))]]
                   /\ calls' = [calls EXCEPT ![r] =
                         Append(@, Call("digest", k, Head(res.remove)))]
    /\ UNCHANGED <<args, mainpc, catalog, next_repo, catalog_calls,
                   catalog_res, num_tags_to_delete, errors, stdout, rank, cls>>

\* a plausible slip: the closing `if tags_for_deletion == 0` push left out
TaskReturnSilent(r) ==
    /\ task[r].pc = "buckets"
    /\ DOMAIN task[r].buckets = {}
    /\ task' = [task EXCEPT ![r].pc = "ok"]
    /\ UNCHANGED <<args, mainpc, catalog, next_repo, calls, catalog_calls,
                   catalog_res, num_tags_to_delete, errors, stdout, rank, cls>>

\* lines 282-287: every bucket is done and the task returns Ok((log, n))
TaskReturn(r) ==
    /\ task[r].pc = "buckets"
    /\ DOMAIN task[r].buckets = {}
    /\ task' = [task EXCEPT ![r].pc = "ok",
                            ![r].log = IF task[r].count = 0
                                       THEN Append(@, NoEligible(r)) ELSE @]
    /\ UNCHANGED <<args, mainpc, catalog, next_repo, calls, catalog_calls,
                   catalog_res, num_tags_to_delete, errors, stdout, rank, cls>>

\* line 265: the `for tag_to_remove` loop goes on to its next tag, asking for
\* its digest, or ends; t.remove still starts with the tag just handled
AfterTag(t, cs) ==
    IF Tail(t.remove) # <<>>
    THEN [task |-> [t EXCEPT !.pc = "digest", !.remove = Tail(t.remove)],
          calls |-> Append(cs, Call("digest", t.bucket, t.remove[2]))]
    ELSE [task |-> [t EXCEPT !.pc = "buckets", !.remove = <<>>], calls |-> cs]

\* a plausible slip: a failed digest resolution handled like a missing
\* digest, the loop going on to the remaining tags
DigestErrSkipped(r) ==
    /\ task[r].pc = "digest"
    /\ LET nx == AfterTag(task[r], Answered(calls[r], "err"))
       IN  /\ task' = [task EXCEPT ![r] = nx.task]
           /\ calls' = [calls EXCEPT ![r] = nx.calls]
    /\ UNCHANGED <<args, mainpc, catalog, next_repo, catalog_calls,
                   catalog_res, num_tags_to_delete, errors, stdout, rank, cls>>

\* line 266: get_tag_digest fails and `?` returns Err from the task
DigestErr(r) ==
    /\ task[r].pc = "digest"
    /\ task' = [task EXCEPT ![r].pc = "err"]
    /\ calls' = [calls EXCEPT ![r] = Answered(@, "err")]
    /\ UNCHANGED <<args, mainpc, catalog, next_repo, catalog_calls,
                   catalog_res, num_tags_to_delete, errors, stdout, rank, cls>>

\* a plausible slip: the warning printed with println! from inside the task
\* instead of pushed on its log
DigestNonePrinted(r) ==
    /\ task[r].pc = "digest"
    /\ LET nx == AfterTag(task[r], Answered(calls[r], "none"))
       IN  /\ task' = [task EXCEPT ![r] = nx.task]
           /\ calls' = [calls EXCEPT ![r] = nx.calls]
    /\ stdout' = Append(stdout,
                        [kind |-> "log", repo |-> r,
                         lines |-> <<Warning(r, Head(task[r].remove))>>])
    /\ UNCHANGED <<args, mainpc, catalog, next_repo, catalog_calls,
                   catalog_res, num_tags_to_delete, errors, rank, cls>>

\* lines 275-277: Ok(None), a 404 or no digest header: a warning, next tag
DigestNone(r) ==
    /\ task[r].pc = "digest"
    /\ LET t == task[r]
           nx == AfterTag([t EXCEPT !.log = Append(@, Warning(r, Head(t.remove)))],
                          Answered(calls[r], "none"))
       IN  /\ task' = [task EXCEPT ![r] = nx.task]
           /\ calls' = [calls EXCEPT ![r] = nx.calls]
    /\ UNCHANGED <<args, mainpc, catalog, next_repo, catalog_calls,
                   catalog_res, num_tags_to_delete, errors, stdout, rank, cls>>

\* a plausible slip: delete_tag started without being awaited, the loop
\* going on to the next tag while the delete is still in flight
DigestSomeDetached(r) ==
    /\ task[r].pc = "digest"
    /\ LET t == task[r]
           t1 == [t EXCEPT !.log = Append(@, ToBeDeleted(r, Head(t.remove)))]
           cs == Answered(calls[r], "some")
           nx == AfterTag(t1, IF DeleteRequested(args)
                              THEN Append(cs, Call("delete", t.bucket,
                                                   Head(t.remove)))
                              ELSE cs)
       IN  /\ task' = [task EXCEPT ![r] = nx.task]
           /\ calls' = [calls EXCEPT ![r] = nx.calls]
    /\ UNCHANGED <<args, mainpc, catalog, next_repo, catalog_calls,
                   catalog_res, num_tags_to_delete, errors, stdout, rank, cls>>

\* lines 268-272: Ok(Some(digest)): a "to be deleted" line, and with the
\* delete flag delete_tag is issued
DigestSome(r) ==
    /\ task[r].pc = "digest"
    /\ LET t == task[r]
           t1 == [t EXCEPT !.log = Append(@, ToBeDeleted(r, Head(t.remove)))]
           cs == Answered(calls[r], "some")
           nx == AfterTag(t1, cs)
       IN  IF DeleteRequested(args)
           THEN /\ task' = [task EXCEPT ![r] = [t1 EXCEPT !.pc = "delete"]]
                /\ calls' = [calls EXCEPT ![r] =
                      Append(cs, Call("delete", t.bucket, Head(t.remove)))]
           ELSE /\ task' = [task EXCEPT ![r] = nx.task]
                /\ calls' = [calls EXCEPT ![r] = nx.calls]
    /\ UNCHANGED <<args, mainpc, catalog, next_repo, catalog_calls,
                   catalog_res, num_tags_to_delete, errors, stdout, rank, cls>>

\* line 272: delete_tag fails and `?` returns Err from the task
DeleteErr(r) ==
    /\ task[r].pc = "delete"
    /\ task' = [task EXCEPT ![r].pc = "err"]
    /\ calls' = [calls EXCEPT ![r] = Answered(@, "err")]
    /\ UNCHANGED <<args, mainpc, catalog, next_repo, catalog_calls,
                   catalog_res, num_tags_to_delete, errors, stdout, rank, cls>>

\* lines 272-273: delete_tag succeeds: a "Deleted" line, next tag
DeleteOk(r) ==
    /\ task[r].pc = "delete"
    /\ LET t == task[r]
           nx == AfterTag([t EXCEPT !.log = Append(@, Deleted(r, Head(t.remove)))],
                          Answered(calls[r], "ok"))
       IN  /\ task' = [task EXCEPT ![r] = nx.task]
           /\ calls' = [calls EXCEPT ![r] = nx.calls]
    /\ UNCHANGED <<args, mainpc, catalog, next_repo, catalog_calls,
                   catalog_res, num_tags_to_delete, errors, stdout, rank, cls>>

\* lines 294-299: join_next yields a task that returned Ok((log, n))
JoinOk(r) ==
    /\ mainpc = "join"
    /\ task[r].pc = "ok" /\ ~task[r].joined
    /\ task' = [task EXCEPT ![r].joined = TRUE]
    /\ stdout' = Append(stdout, [kind |-> "log", repo |-> r, lines |-> task[r].log])
    /\ num_tags_to_delete' = num_tags_to_delete + task[r].count
    /\ UNCHANGED <<args, mainpc, catalog, next_repo, calls, catalog_calls,
                   catalog_res, errors, rank, cls>>

\* lines 294-300: join_next yields a task that returned Err(e)
JoinErr(r) ==
    /\ mainpc = "join"
    /\ task[r].pc = "err" /\ ~task[r].joined
    /\ task' = [task EXCEPT ![r].joined = TRUE]
    /\ errors' = Append(errors, r)
    /\ UNCHANGED <<args, mainpc, catalog, next_repo, calls, catalog_calls,
                   catalog_res, num_tags_to_delete, stdout, rank, cls>>

\* line 295: join_next yields the JoinError of a task that panicked and
\* `thread_result?` returns from main; the JoinSet is dropped, which aborts
\* every task still running
JoinPanicked(r) ==
    /\ mainpc = "join"
    /\ task[r].pc = "panicked" /\ ~task[r].joined
    /\ mainpc' = "failed"
    /\ task' = [x \in Repos |->
                 IF x = r THEN [task[x] EXCEPT !.joined = TRUE]
                 ELSE IF Spawned(x) /\ task[x].pc \notin Finished
                      THEN [task[x] EXCEPT !.pc = "cancelled"]
                 ELSE task[x]]
    /\ UNCHANGED <<args, catalog, next_repo, calls, catalog_calls,
                   catalog_res, num_tags_to_delete, errors, stdout, rank, cls>>

\* lines 304-316: join_next yields None; the error block and the total
Summary ==
    /\ mainpc = "join"
    /\ \A r \in Repos : Spawned(r) => task[r].joined
    /\ stdout' = stdout
          \o (IF errors # <<>>
              THEN <<[kind |-> "errors", repos |-> errors]>> ELSE <<>>)
          \o <<[kind |-> IF args.delete THEN "deleted_total" ELSE "found_total",
                n |-> num_tags_to_delete]>>
    /\ mainpc' = "done"
    /\ UNCHANGED <<args, catalog, next_repo, task, calls, catalog_calls,
                   catalog_res, num_tags_to_delete, errors, rank, cls>>

Init ==
    /\ \E a \in PipelineArgs : PipelineAt("start", a)
    /\ rank = RankIdle
    /\ cls = ClsIdle

Next ==
    \/ CompileTagRules
    \/ CompileImageRules
    \/ CatalogOk
    \/ CatalogErr
    \/ SpawnOrSkip
    \/ SpawnDone
    \/ Summary
    \/ \E r \in Repos :
          \/ TaskStart(r)
          \/ TagListErr(r)
          \/ TagListOk(r)
          \/ NextBucket(r)
          \/ TaskReturn(r)
          \/ DigestErr(r)
          \/ DigestNone(r)
          \/ DigestSome(r)
          \/ DeleteErr(r)
          \/ DeleteOk(r)
          \/ JoinOk(r)
          \/ JoinErr(r)
          \/ JoinPanicked(r)

Spec == Init /\ [][Next]_vars

(***************************************************************************)
(* Properties of classify_tags (SpecRank).                                 *)
(***************************************************************************)
Count(q, x) == Cardinality({i \in 1..Len(q) : q[i] = x})

\* the tags classify_tags ranks: all of them, or in semver mode those whose
\* text parses once trim_start_matches('v') has run
ModeFiltered(tags, semver) ==
    IF semver
    THEN [i \in 1..Len(ParsedVersions(tags)) |-> ParsedVersions(tags)[i].tag]
    ELSE tags

\* the ranking order of the mode on two tags: > 0 when a ranks above b
RankCmp(semver, a, b) ==
    IF semver
    THEN VersionCmp(VersionParse(trim_start_matches_v(a)),
                    VersionParse(trim_start_matches_v(b)))
    ELSE StrCmp(a, b)

Descending(q, semver) ==
    \A i, j \in 1..Len(q) : i < j => RankCmp(semver, q[i], q[j]) >= 0

RankCalled == rank.st \in {"returned", "panicked"}

\* C5: for every tag list, every positive max_keep and both modes,
\* classify_tags returns keep and remove that are disjoint, whose
\* concatenation is the descending-sorted mode-filtered input, with
\* len(keep) = min(max_keep, number of mode-filtered tags).
C5_PartitionOfFilteredInput ==
    RankCalled =>
        /\ rank.st = "returned"
        /\ Range(rank.keep) \cap Range(rank.remove) = {}
        /\ rank.keep \o rank.remove \in Sorted(rank.tags, rank.semver)
        /\ Len(rank.keep) =
               Min(rank.num_tags, Len(ModeFiltered(rank.tags, rank.semver)))

\* the contract's reading of the prefix: ONE optional leading 'v' is stripped
StripOneV(t) == IF t # <<>> /\ Head(t) = "v" THEN Tail(t) ELSE t

\* C6: in lexicographic mode every input tag is in keep or in remove; in
\* semver mode the tags in neither are exactly the tags that fail
\* semantic-version parsing after one optional leading 'v' is stripped.
C6_DroppedAreTheUnparsable ==
    rank.st = "returned" =>
        LET ranked == Range(rank.keep) \cup Range(rank.remove)
        IN  IF rank.semver
            THEN {t \in Range(rank.tags) : t \notin ranked} =
                 {t \in Range(rank.tags) : ~VersionParse(StripOneV(t)).ok}
            ELSE Range(rank.tags) \subseteq ranked

\* C7: keep is the first n elements and remove the rest of the input sorted
\* in descending order of the mode, so both are descending and no tag of
\* remove ranks above a tag of keep; the two worked examples come out as
\* the contract gives them.
C7_KeepsTheGreatest ==
    rank.st = "returned" =>
        LET all == rank.keep \o rank.remove
            in == ModeFiltered(rank.tags, rank.semver)
        IN  /\ Len(rank.keep) = Min(rank.num_tags, Len(rank.tags))
            /\ \A t \in Range(all) \cup Range(in) : Count(all, t) = Count(in, t)
            /\ Descending(all, rank.semver)
            /\ \A i \in 1..Len(rank.keep) : \A j \in 1..Len(rank.remove) :
                   RankCmp(rank.semver, rank.remove[j], rank.keep[i]) <= 0
            /\ (rank.tags = <<Tag_c, Tag_a, Tag_b>> /\ rank.num_tags = 2
                  /\ ~rank.semver
                => rank.keep = <<Tag_c, Tag_b>> /\ rank.remove = <<Tag_a>>)
            /\ (rank.tags = <<Tag_v1_2_0, Tag_v1_1_0, Tag_v2_0_0, Tag_latest>>
                  /\ rank.num_tags = 1 /\ rank.semver
                => rank.keep = <<Tag_v2_0_0>>
                   /\ rank.remove = <<Tag_v1_2_0, Tag_v1_1_0>>)

\* the semver example has been ranked: v2.0.0 kept, "latest" in neither
C7_Witness ==
    /\ rank.st = "returned"
    /\ rank.semver
    /\ rank.tags = <<Tag_v1_2_0, Tag_v1_1_0, Tag_v2_0_0, Tag_latest>>
    /\ rank.keep = <<Tag_v2_0_0>>
    /\ rank.remove = <<Tag_v1_2_0, Tag_v1_1_0>>

(***************************************************************************)
(* Properties of get_matching_tags (SpecClassify).                         *)
(***************************************************************************)
\* the distinct rules (a rule's identity is its raw pattern) matching a tag
MatchingRules(rules, t) == {p \in Range(rules) : is_match(p, t)}

\* the buckets holding a tag
BucketsOf(out, t) == {k \in DOMAIN out : t \in Range(out[k])}

\* the position of a tag in a tag list without repetitions
Pos(q, t) == CHOOSE i \in 1..Len(q) : q[i] = t

\* C9: with a non-empty rule list each tag is in the bucket of every rule
\* matching it and in no other: a tag matching no rule is in no bucket, a tag
\* matching k rules is in exactly k buckets, no bucket is empty, and a
\* bucket's tags are in the order of the source tag list.
C9_BucketPerMatchingRule ==
    (cls.st = "returned" /\ cls.rules # <<>>) =>
        /\ DOMAIN cls.out \subseteq Range(cls.rules)
        /\ \A k \in DOMAIN cls.out :
              /\ cls.out[k] # <<>>
              /\ Range(cls.out[k]) \subseteq Range(cls.tags)
              /\ \A i, j \in 1..Len(cls.out[k]) :
                    i < j => Pos(cls.tags, cls.out[k][i])
                               <= Pos(cls.tags, cls.out[k][j])
        /\ \A t \in Range(cls.tags) :
              /\ BucketsOf(cls.out, t) = MatchingRules(cls.rules, t)
              /\ Cardinality(BucketsOf(cls.out, t)) =
                     Cardinality(MatchingRules(cls.rules, t))

\* a list with a tag matching two rules and a tag matching none is classified
C9_Witness ==
    /\ cls.st = "returned"
    /\ cls.rules = <<Pat_v, Pat_1>>
    /\ cls.tags = <<Tag_a, Tag_v1_0_0, Tag_dev_1>>
    /\ BucketsOf(cls.out, Tag_v1_0_0) = {Pat_v, Pat_1}
    /\ BucketsOf(cls.out, Tag_a) = {}
    /\ cls.out[Pat_1] = <<Tag_v1_0_0, Tag_dev_1>>

CallsOf(r, op) == {i \in 1..Len(calls[r]) : calls[r][i].op = op}

\* the digest resolutions of repository r that were answered with `res`
Resolved(r, res) == {i \in CallsOf(r, "digest") : calls[r][i].res = res}

\* main has returned: Ok(()) after the summary, or Err through a `?`
MainEnded == mainpc \in {"done", "failed"}

RECURSIVE SumOfCounts(_)
SumOfCounts(S) ==
    IF S = {} THEN 0
    ELSE LET r == CHOOSE x \in S : TRUE
         IN  task[r].count + SumOfCounts(S \ {r})

\* C1: in dry-run mode (no delete flag) no delete call is ever issued to the
\* registry, whatever the catalog, the tag lists, the rules, max-per-tag,
\* the ordering mode and the remove-sets.
C1_DryRunNeverDeletes ==
    ~args.delete => \A r \in Repos : CallsOf(r, "delete") = {}

\* a dry run has ended in which a remove-set tag's digest was resolved
C1_Witness ==
    /\ ~args.delete
    /\ mainpc = "done"
    /\ \E r \in Repos : Resolved(r, "some") # {} /\ task[r].pc = "ok"

\* C2 as claimed: in execute mode, by the end of the run, exactly one delete
\* call has been issued for each tag that is in a remove-set and whose digest
\* resolution returned a digest, also when the tag is in the remove-sets of
\* several overlapping buckets.
C2_OneDeletePerTag ==
    (args.delete /\ MainEnded) =>
        \A r \in Repos : \A i \in Resolved(r, "some") :
            Cardinality({j \in CallsOf(r, "delete") :
                           calls[r][j].tag = calls[r][i].tag}) = 1

\* C2 as amended: in execute mode exactly one delete call is issued for each
\* digest resolution that returned a digest, that is one per remove-set
\* entry and not one per tag: the delete is the worker's very next call, for
\* the same bucket and tag, and no delete is issued otherwise.
C2_OneDeletePerResolvedEntry ==
    args.delete =>
        \A r \in Repos :
            /\ \A i \in Resolved(r, "some") :
                  /\ i + 1 \in CallsOf(r, "delete")
                  /\ calls[r][i + 1].tag = calls[r][i].tag
                  /\ calls[r][i + 1].bucket = calls[r][i].bucket
            /\ \A j \in CallsOf(r, "delete") : j - 1 \in Resolved(r, "some")

\* an execute run has ended in which one tag, in the remove-sets of two
\* overlapping buckets, had its digest resolved under both
C2_Witness ==
    /\ args.delete
    /\ mainpc = "done"
    /\ \E r \in Repos : \E i, j \in Resolved(r, "some") :
          /\ calls[r][i].tag = calls[r][j].tag
          /\ calls[r][i].bucket # calls[r][j].bucket
          /\ task[r].pc = "ok"

\* the repository's get_tag_list call failed
FetchFailed(r) == CallsOf(r, "tag_list") # {} /\ calls[r][1].res = "err"

\* C3: a repository whose tag-list fetch fails adds 0 to the total and
\* exactly one entry to the error list and produces no log; every other
\* admitted repository's worker still completes, and the final total is the
\* sum of the counts returned by the workers that succeeded.
C3_FetchFailureIsIsolated ==
    \A r \in Repos :
        (FetchFailed(r) /\ MainEnded) =>
            /\ Count(errors, r) = 1
            /\ \A i \in 1..Len(stdout) :
                  stdout[i].kind = "log" => stdout[i].repo # r
            /\ \A x \in Repos \ {r} : Spawned(x) => task[x].pc \in {"ok", "err"}
            /\ mainpc = "done"
            /\ num_tags_to_delete =
                   SumOfCounts({x \in Repos : task[x].pc = "ok"})
            /\ stdout[Len(stdout)].n = num_tags_to_delete

\* C4: one worker's failure never cancels or blocks the others: however a
\* worker ends (fetch, digest or delete failure, or the task aborting), no
\* other worker is cancelled, and main ends only with every spawned worker
\* finished and collected and the summary rendered.
C4_FailureNeverCancelsOthers ==
    (\E r \in Repos : Spawned(r)) =>
        /\ \A r \in Repos : task[r].pc # "cancelled"
        /\ MainEnded =>
              /\ mainpc = "done"
              /\ \A r \in Repos :
                    Spawned(r) => task[r].pc \in Finished /\ task[r].joined

\* C8: when the digest resolution of a remove-set tag returns "not found"
\* the worker logs a warning for the tag, issues no delete for it, and the
\* tag does not change the count: the count returned is the one the worker
\* would return without the tag in the remove-set, in both modes.
C8_NotFoundIsNotCounted ==
    \A r \in Repos :
        /\ \A i \in Resolved(r, "none") :
              /\ \E k \in 1..Len(task[r].log) :
                    task[r].log[k] = Warning(r, calls[r][i].tag)
              /\ i + 1 \notin CallsOf(r, "delete")
        /\ task[r].pc = "ok" =>
              task[r].count = Cardinality(CallsOf(r, "digest"))
                                - Cardinality(Resolved(r, "none"))

\* every pattern of the list is one Regex::new accepts
PatternsValid(patterns) == \A i \in 1..Len(patterns) : RegexNew(patterns[i])

\* a request has been sent to the registry
NetworkUsed == catalog_calls > 0 \/ \E r \in Repos : calls[r] # <<>>

\* C11: no registry call is issued before both rule sets have compiled; with
\* an invalid pattern in either set the run ends with an error, having made
\* no network call and spawned no worker.
C11_NoCallBeforeRulesCompile ==
    /\ (NetworkUsed \/ \E r \in Repos : Spawned(r)) =>
          /\ PatternsValid(args.tags) /\ PatternsValid(args.images)
          /\ mainpc \notin {"start", "compile_images"}
    /\ ~(PatternsValid(args.tags) /\ PatternsValid(args.images)) =>
          /\ mainpc \in {"start", "compile_images", "failed"}
          /\ ~NetworkUsed
          /\ \A r \in Repos : ~Spawned(r)
          /\ stdout = <<>>

\* the tag rules compiled, an image pattern did not, and main has returned
C11_Witness ==
    /\ mainpc = "failed"
    /\ PatternsValid(args.tags)
    /\ ~PatternsValid(args.images)
    /\ catalog_calls = 0

\* C12: the catalog is requested exactly once per run that gets past the
\* rule compilation, and a failed catalog request aborts the whole run: no
\* worker, no tag-list, digest or delete call, and no summary.
C12_CatalogOnceAndFatal ==
    /\ catalog_calls <= 1
    /\ mainpc \in {"catalog", "spawn", "join", "done"} => catalog_calls = 1
    /\ (catalog_res = "none") = (catalog_calls = 0)
    /\ catalog_res = "err" =>
          /\ mainpc = "failed"
          /\ \A r \in Repos : ~Spawned(r) /\ calls[r] = <<>>
          /\ stdout = <<>>

\* the one catalog request of the run has failed
C12_Witness ==
    /\ catalog_res = "err"
    /\ catalog_calls = 1
    /\ mainpc = "failed"

\* the image rule set is empty or one of its rules matches the repository
ImageRulesPass(repository) ==
    \/ args.images = <<>>
    \/ \E i \in 1..Len(args.images) : is_match(args.images[i], repository)

\* the catalog entries the spawn loop has been through
Visited == {catalog[i] : i \in 1..(next_repo - 1)}

\* C13: a worker is spawned for a catalog entry if and only if the image
\* rule set is empty or one of its rules matches the name; a skipped
\* repository never receives a call; an admitted entry gets exactly one
\* worker (one tag-list request).
C13_WorkerIffAdmitted ==
    /\ \A r \in Repos :
          /\ Spawned(r) <=> r \in Visited /\ ImageRulesPass(r)
          /\ ~Spawned(r) => calls[r] = <<>>
          /\ Cardinality(CallsOf(r, "tag_list")) <= 1
          /\ task[r].pc \in Finished
                => Cardinality(CallsOf(r, "tag_list")) = 1
    /\ Cardinality({r \in Repos : Spawned(r)}) =
          Cardinality({i \in 1..(next_repo - 1) : ImageRulesPass(catalog[i])})
    /\ Cardinality({i \in 1..Len(stdout) : stdout[i].kind = "skip"}) =
          Cardinality({i \in 1..(next_repo - 1) : ~ImageRulesPass(catalog[i])})

\* one image rule, one entry admitted and worked through, the other skipped
C13_Witness ==
    /\ args.images # <<>>
    /\ mainpc = "done"
    /\ \E r, s \in Repos :
          /\ task[r].pc = "ok" /\ calls[r] # <<>>
          /\ s \in Visited /\ ~Spawned(s) /\ calls[s] = <<>>

\* the call repository r's worker is waiting for, if any
InFlight(r) == {i \in 1..Len(calls[r]) : calls[r][i].res = "pending"}

\* C14: within one worker the registry calls are strictly sequential: at
\* most one call is in flight and it is the latest one; a delete is issued
\* only right after the digest resolution of the same tag returned a digest;
\* the next call is issued only once the previous one has returned without
\* an error, a resolved digest in execute mode being followed by its delete.
C14_CallsSequentialPerWorker ==
    \A r \in Repos :
       /\ InFlight(r) \subseteq {Len(calls[r])}
       /\ InFlight(r) # {} =>
             task[r].pc \in {"tag_list", "digest", "delete", "cancelled"}
       /\ \A i \in 1..Len(calls[r]) :
             LET c == calls[r][i]
             IN  /\ (i = 1) = (c.op = "tag_list")
                 /\ c.op = "delete" =>
                       /\ calls[r][i - 1].op = "digest"
                       /\ calls[r][i - 1].res = "some"
                       /\ calls[r][i - 1].tag = c.tag
                       /\ calls[r][i - 1].bucket = c.bucket
                 /\ c.op = "digest" =>
                       LET p == calls[r][i - 1]
                       IN  \/ p.op \in {"tag_list", "delete"} /\ p.res = "ok"
                           \/ p.op = "digest" /\ p.res = "none"
                           \/ p.op = "digest" /\ p.res = "some"
                                 /\ ~args.delete

\* two workers wait for the registry at the same time, one of them for a
\* delete that follows an earlier tag's resolution and delete
C14_Witness ==
    \E r, s \in Repos :
       /\ r # s
       /\ InFlight(s) # {}
       /\ InFlight(r) # {}
       /\ calls[r][Len(calls[r])].op = "delete"
       /\ Cardinality(CallsOf(r, "delete")) = 2

\* the blocks of stdout that are the log of repository r
LogBlocks(r) ==
    {i \in 1..Len(stdout) : stdout[i].kind = "log" /\ stdout[i].repo = r}

\* C15: a failed call (tag list, digest resolution or delete) is terminal
\* for its worker: it is the worker's last call, the worker ends with an
\* error, which main records once when it collects the worker, with no log
\* and no count; the deletes that succeeded before stay as they were.
C15_FailedCallIsTerminal ==
    /\ \A r \in Repos :
          /\ \A i \in 1..Len(calls[r]) :
                calls[r][i].res = "err" =>
                   i = Len(calls[r]) /\ task[r].pc = "err"
          /\ task[r].pc = "err" =>
                /\ calls[r] # <<>>
                /\ calls[r][Len(calls[r])].res = "err"
                /\ Count(errors, r) = IF task[r].joined THEN 1 ELSE 0
                /\ LogBlocks(r) = {}
                /\ \A i \in CallsOf(r, "delete") :
                      i < Len(calls[r]) => calls[r][i].res = "ok"
          /\ task[r].pc # "err" => Count(errors, r) = 0
    /\ num_tags_to_delete =
          SumOfCounts({x \in Repos : task[x].pc = "ok" /\ task[x].joined})

\* a worker whose second delete failed after its first one succeeded has
\* been collected, and the run is over
C15_Witness ==
    \E r \in Repos :
       /\ mainpc = "done"
       /\ task[r].pc = "err"
       /\ task[r].joined
       /\ Cardinality(CallsOf(r, "delete")) = 2
       /\ calls[r][Len(calls[r])].op = "delete"
       /\ task[r].count > 0

\* the delete calls of repository r that the registry accepted
Succeeded(r) == {i \in CallsOf(r, "delete") : calls[r][i].res = "ok"}

RECURSIVE SumOfSucceeded(_)
SumOfSucceeded(S) ==
    IF S = {} THEN 0
    ELSE LET r == CHOOSE x \in S : TRUE
         IN  Cardinality(Succeeded(r)) + SumOfSucceeded(S \ {r})

\* C16: in execute mode the count a worker returns is the number of its
\* delete calls that succeeded, and the total printed as "Deleted a total of
\* N tag(s)" is the number of successful delete calls of the run.
C16_CountIsSuccessfulDeletes ==
    args.delete =>
       /\ \A r \in Repos :
             task[r].pc = "ok" => task[r].count = Cardinality(Succeeded(r))
       /\ mainpc = "done" =>
             /\ stdout[Len(stdout)].kind = "deleted_total"
             /\ stdout[Len(stdout)].n = SumOfSucceeded(Repos)

\* the digest resolutions repository r's worker asked for in bucket `pattern`
DigestsOf(r, pattern) ==
    {j \in CallsOf(r, "digest") : calls[r][j].bucket = pattern}

\* the lines the first i calls of repository r account for: a bucket's
\* "N tags eligible for pattern P" line ahead of its first resolution, then
\* one line per resolution and one per successful delete
RECURSIVE LinesOf(_, _)
LinesOf(r, i) ==
    IF i = 0 THEN <<>>
    ELSE LET c == calls[r][i]
             opens == calls[r][i - 1].bucket # c.bucket
         IN  LinesOf(r, i - 1) \o
             (CASE c.op = "tag_list" -> <<>>
                [] c.op = "digest" ->
                     (IF opens
                      THEN <<Found(r, Cardinality(DigestsOf(r, c.bucket)),
                                   c.bucket)>>
                      ELSE <<>>)
                     \o (IF c.res = "some" THEN <<ToBeDeleted(r, c.tag)>>
                         ELSE IF c.res = "none" THEN <<Warning(r, c.tag)>>
                         ELSE <<>>)
                [] c.op = "delete" ->
                     IF c.res = "ok" THEN <<Deleted(r, c.tag)>> ELSE <<>>)

\* C17: a worker that returns an outcome has the "no eligible tags" line in
\* its log if and only if its count is zero; with a zero count (no bucket,
\* or only buckets with an empty remove-set) the log is that line alone;
\* with a non-empty remove-set the bucket's "N tags eligible for pattern P"
\* line comes before the bucket's per-tag lines, N of them being
\* resolutions, and there is no "no eligible tags" line.
C17_NoEligibleIffZeroCount ==
    \A r \in Repos :
       task[r].pc = "ok" =>
          LET log == task[r].log
              nones == {k \in 1..Len(log) : log[k] = NoEligible(r)}
          IN  /\ (nones # {}) = (task[r].count = 0)
              /\ task[r].count = 0 => log = <<NoEligible(r)>>
              /\ task[r].count > 0 =>
                    /\ log[1].kind = "found"
                    /\ log = LinesOf(r, Len(calls[r]))
              /\ \A k \in 1..Len(log) :
                    log[k].kind = "found" =>
                       /\ log[k].n > 0
                       /\ k + 1 <= Len(log)
                       /\ log[k + 1].kind \in {"to_be_deleted", "warning"}

\* without tag rules, one worker ranked its wildcard bucket to an empty
\* remove-set and another one went through a remove-set with an unresolved
\* tag
C17_Witness ==
    \E r, s \in Repos :
       /\ args.tags = <<>>
       /\ task[r].pc = "ok" /\ task[r].count = 0
       /\ task[r].log = <<NoEligible(r)>>
       /\ task[s].pc = "ok" /\ task[s].count > 0
       /\ \E k \in 2..Len(task[s].log) : task[s].log[k].kind = "warning"

\* the lines of the terminal, one after the other: a println! of a joined
\* log is as many lines as the log has
RECURSIVE Flatten(_)
Flatten(out) ==
    IF out = <<>> THEN <<>>
    ELSE (IF Head(out).kind = "log" THEN Head(out).lines ELSE <<Head(out)>>)
         \o Flatten(Tail(out))

\* a line that a worker pushed on its log
WorkerLine(l) ==
    l.kind \in {"none", "found", "to_be_deleted", "deleted", "warning"}

\* where the lines of repository r's worker are on the terminal
LinesAt(r) ==
    {i \in 1..Len(Flatten(stdout)) :
        WorkerLine(Flatten(stdout)[i]) /\ Flatten(stdout)[i].repo = r}

IsLineOf(r, l) == WorkerLine(l) /\ l.repo = r

\* C18: the output of concurrent repositories is never interleaved: nothing
\* of a worker is on the terminal before main has collected its outcome,
\* then its log lines are there once, contiguous and in the order they were
\* emitted; the error block and the total line come after every
\* repository's log.
C18_OutputNeverInterleaved ==
    LET flat == Flatten(stdout)
    IN  /\ \A r \in Repos :
              /\ \A i, k \in LinesAt(r) : \A j \in i..k : j \in LinesAt(r)
              /\ IF task[r].pc = "ok" /\ task[r].joined
                 THEN SelectSeq(flat, LAMBDA l : IsLineOf(r, l)) = task[r].log
                 ELSE LinesAt(r) = {}
              /\ Cardinality(LogBlocks(r)) <= 1
        /\ \A i \in 1..Len(flat) :
              flat[i].kind \in {"errors", "deleted_total", "found_total"} =>
                 /\ mainpc = "done"
                 /\ \A j \in 1..Len(flat) : WorkerLine(flat[j]) => j < i
                 /\ flat[i].kind = "errors" => i = Len(flat) - 1
                 /\ flat[i].kind # "errors" => i = Len(flat)

\* two workers ran side by side with logs of several lines each, and the
\* run has printed both logs and its total
C18_Witness ==
    /\ mainpc = "done"
    /\ \A r \in Repos :
          /\ task[r].pc = "ok" /\ task[r].joined
          /\ Len(task[r].log) >= 3
          /\ Cardinality(LinesAt(r)) = Len(task[r].log)

\* C19: classify_tags returns a (keep, remove) pair for every tag list, every
\* positive max_keep and both modes: the slice index it uses is within the
\* sorted sequence and the call never aborts.
C19_RankerNeverAborts ==
    /\ rank.st # "panicked"
    /\ RankCalled =>
          Min(rank.num_tags, Len(rank.tags))
             <= Len(ModeFiltered(rank.tags, rank.semver))

\* the same tags listed in another order
Reorderings(q) ==
    {[i \in 1..Len(q) |-> q[p[i]]] :
        p \in {f \in [1..Len(q) -> 1..Len(q)] :
                  \A i, j \in 1..Len(q) : i # j => f[i] # f[j]}}

\* C20: the split is deterministic: whatever order the same tags are listed
\* in, with the same max_keep and the same mode, classify_tags returns the
\* same keep and the same remove, two tags of equal version included.
C20_SplitIndependentOfListingOrder ==
    rank.st = "returned" =>
       \A tags \in Reorderings(rank.tags) :
          classify_tags(tags, rank.num_tags, rank.semver)
             = {Returned(rank.keep, rank.remove)}

=============================================================================
